---- MODULE Spec2Model ----
(***************************************************************************)
(* Model of the typereg registry engine: the weak table REGISTRY_STATE,    *)
(* the NarrowingMapping views layered over each other, the class          *)
(* declaration hook Registry.__init_subclass__ and the query functions of  *)
(* utils.py.                                                               *)
(*                                                                         *)
(* A class is a natural number, its index in `classes`; 0 is None.         *)
(* A Registry base class (the result of create_registry) is a class whose  *)
(* record has registry = TRUE.  `object` is left out of every MRO.         *)
(***************************************************************************)
EXTENDS Naturals, Sequences, FiniteSets, TLC

VARIABLES classes, heap, REGISTRY_STATE, budget, last, held, attrs, schemas, io,
          threads, overlapped

\* What the calling program holds besides the classes: held is the dict it
\* got from get_tag_to_class_mapping; attrs[c][k] is the field named k that
\* class c has in its own namespace (annotation, class attribute), for the
\* classes that have one; schemas[F] is the core schema built for family
\* root F; io is the last encode or decode with its input and outcome.
client == <<held, attrs, schemas, io>>

\* threads[t] is where thread t stands in the class statement it runs (idle
\* when it runs none); overlapped tells that some thread has taken a step
\* while another was inside its class statement.
conc == <<threads, overlapped>>

vars == <<classes, heap, REGISTRY_STATE, budget, last, client, conc>>

\* ---------------------------------------------------------------- bounds
\* MaxClasses class statements are explored after the prepared declarations
\* of Init; the prepared hierarchies nest up to MaxDepth families.
MaxClasses == 2
MaxDepth == 4
\* A program edits the dict it holds at most MaxEdits times.
MaxEdits == 2

\* ------------------------------------------------------------ input sets
\* The keywords of the Registry bases the program has created: the default
\* Registry of registry.py and one create_registry("kind").
RegistryKwargs == <<"_type_tag", "kind">>
TagKwargs == {RegistryKwargs[i] : i \in 1..Len(RegistryKwargs)}
Tags == {"a", "b"}

\* A keyword argument value: a Python object that is a str or is not.
Str(s) == [isstr |-> TRUE, v |-> s]
NonStr(s) == [isstr |-> FALSE, v |-> s]
SENTINEL == NonStr("SENTINEL")
TagValues == {Str(s) : s \in Tags} \cup {Str(""), NonStr("123")}
KwargValues == TagValues \cup {SENTINEL}

None == 0
EmptyMap == [x \in {} |-> 0]
Range(f) == {f[x] : x \in DOMAIN f}
SeqSet(s) == {s[i] : i \in 1..Len(s)}
Min(S) == CHOOSE x \in S : \A y \in S : x <= y

\* With(v, F) is F(v) with v evaluated once.
With(v, F(_)) == CHOOSE y \in {F(x) : x \in {v}} : TRUE

\* ------------------------------------------------------ NarrowingMapping
\* A heap object is the pair of NarrowingMappings of one RegistryState:
\* field m in {"tag_to_class", "class_to_tag"} holds [own, base], where own
\* is _own and base is the plain dict wrapped when store = 0; otherwise
\* store is the heap object whose mapping m is _store.
NewMapping == [own |-> {}, base |-> EmptyMap]
NewState(store) ==
    [store |-> store, tag_to_class |-> NewMapping, class_to_tag |-> NewMapping]

NM_contains(h, id, m, key) == key \in h[id][m].own

StoreContains(h, id, m, key) ==
    IF h[id].store = 0 THEN key \in DOMAIN h[id][m].base
    ELSE NM_contains(h, h[id].store, m, key)

\* The heap object a chain of NarrowingMappings ends in: the one wrapping the
\* plain dicts of the top-level root.
RECURSIVE LineageTop(_, _)
LineageTop(h, sid) == IF h[sid].store = 0 THEN sid ELSE LineageTop(h, h[sid].store)

\* Mutant of NM_setitem: the value is written into the plain dict directly,
\* so the mappings between this one and the dict never learn the key.
NM_setitem_noprop(h, id, m, key, value) ==
    IF StoreContains(h, id, m, key) THEN [heap |-> h, raised |-> TRUE]
    ELSE [heap |-> [h EXCEPT ![id][m].own = @ \cup {key},
                             ![LineageTop(h, id)][m].base = @ @@ (key :> value)],
          raised |-> FALSE]

\* Mutant of NM_setitem: the conflict check is left out.
RECURSIVE NM_setitem_nocheck(_, _, _, _, _)
NM_setitem_nocheck(h, id, m, key, value) ==
    With([h EXCEPT ![id][m].own = @ \cup {key}], LAMBDA h1 :
        IF h1[id].store = 0
        THEN [heap |-> [h1 EXCEPT ![id][m].base =
                           [k \in DOMAIN @ \cup {key} |-> IF k = key THEN value ELSE @[k]]],
              raised |-> FALSE]
        ELSE NM_setitem_nocheck(h1, h1[id].store, m, key, value))

\* __setitem__: the result is the heap after the call and whether it raised
\* KeyError.  self._store[key] = value is the parent's __setitem__ when the
\* store is another NarrowingMapping.
RECURSIVE NM_setitem(_, _, _, _, _)
NM_setitem(h, id, m, key, value) ==
    IF StoreContains(h, id, m, key) THEN [heap |-> h, raised |-> TRUE]
    ELSE With([h EXCEPT ![id][m].own = @ \cup {key}], LAMBDA h1 :
            IF h1[id].store = 0
            THEN [heap |-> [h1 EXCEPT ![id][m].base = @ @@ (key :> value)],
                  raised |-> FALSE]
            ELSE NM_setitem(h1, h1[id].store, m, key, value))

RECURSIVE NM_getitem(_, _, _, _)
NM_getitem(h, id, m, key) ==
    IF ~NM_contains(h, id, m, key) THEN [raised |-> TRUE, value |-> None]
    ELSE IF h[id].store = 0
         THEN IF key \in DOMAIN h[id][m].base
              THEN [raised |-> FALSE, value |-> h[id][m].base[key]]
              ELSE [raised |-> TRUE, value |-> None]
         ELSE NM_getitem(h, h[id].store, m, key)

NM_iter(h, id, m) == h[id][m].own

\* __delitem__: self._own.remove(key) raises KeyError for a key that is not
\* owned; then del self._store[key].
RECURSIVE NM_delitem(_, _, _, _)
NM_delitem(h, id, m, key) ==
    IF key \notin h[id][m].own THEN [heap |-> h, raised |-> TRUE]
    ELSE With([h EXCEPT ![id][m].own = @ \ {key}], LAMBDA h1 :
            IF h1[id].store = 0
            THEN IF key \in DOMAIN h1[id][m].base
                 THEN [heap |-> [h1 EXCEPT ![id][m].base =
                                    [k \in DOMAIN @ \ {key} |-> @[k]]],
                       raised |-> FALSE]
                 ELSE [heap |-> h1, raised |-> TRUE]
            ELSE NM_delitem(h1, h1[id].store, m, key))

\* dict(mapping): keys() then __getitem__ for each key; a KeyError of any
\* __getitem__ propagates.
DictOf(h, id, m) ==
    IF \E k \in NM_iter(h, id, m) : NM_getitem(h, id, m, k).raised
    THEN [exc |-> "KeyError", value |-> EmptyMap]
    ELSE [exc |-> "", value |-> [k \in NM_iter(h, id, m) |-> NM_getitem(h, id, m, k).value]]

\* ------------------------------------------------------------ class model
\* C3 linearisation (type.__new__ computes __mro__ before __init_subclass__
\* runs).  Result: [ok, value].
RECURSIVE Merge(_)
Merge(seqs) ==
    With(SelectSeq(seqs, LAMBDA s : s # <<>>), LAMBDA ne :
        IF ne = <<>> THEN [ok |-> TRUE, value |-> <<>>]
        ELSE With({i \in 1..Len(ne) :
                     \A j \in 1..Len(ne) : Head(ne[i]) \notin SeqSet(Tail(ne[j]))},
                  LAMBDA good :
                IF good = {} THEN [ok |-> FALSE, value |-> <<>>]
                ELSE With(Head(ne[Min(good)]), LAMBDA hd :
                        With(Merge([j \in 1..Len(ne) |->
                                     IF Head(ne[j]) = hd THEN Tail(ne[j]) ELSE ne[j]]),
                             LAMBDA rest : [ok |-> rest.ok, value |-> <<hd>> \o rest.value]))))

Linearize(cs, cls, bases) ==
    IF Cardinality(SeqSet(bases)) # Len(bases) THEN [ok |-> FALSE, value |-> <<>>]
    ELSE With(Merge([i \in 1..Len(bases) |-> cs[bases[i]].mro] \o <<bases>>),
              LAMBDA r : [ok |-> r.ok, value |-> <<cls>> \o r.value])

\* -------------------------------------------------------------- utils.py
\* get_registry_root_iter: cls itself when it is a key of REGISTRY_STATE,
\* then every class of cls.__mro__ (which starts with cls) that is a key.
get_registry_root_iter(rs, cls, mro) ==
    (IF cls \in DOMAIN rs THEN <<cls>> ELSE <<>>)
        \o SelectSeq(mro, LAMBDA b : b \in DOMAIN rs)

get_parent_registry_root(rs, cls, mro) ==
    With(get_registry_root_iter(rs, cls, mro), LAMBDA it :
        With(IF cls \in DOMAIN rs THEN Tail(it) ELSE it, LAMBDA it1 :
            IF it1 = <<>> THEN None ELSE Head(it1)))

\* ----------------------------------------------------------- registry.py
\* The part of Registry.__init_subclass__ after super().__init_subclass__
\* returns, run for the class cls being created on behalf of the Registry
\* base r with tag = kwargs.pop(tag_kwarg, SENTINEL).  ctx carries the heap,
\* REGISTRY_STATE, what cls.__dict__ holds under __get_pydantic_core_schema__
\* (hook), the MRO of cls and the exception raised so far (exc = "" for
\* none); key is the offending key of an exception and, after a completed
\* registration, the tag registered.
Raise(ctx, exc, msg, key) == [ctx EXCEPT !.exc = exc, !.msg = msg, !.key = key]

RegisterVariant(ctx, sid, tag, cls) ==
    With(NM_setitem(ctx.heap, sid, "tag_to_class", tag, cls), LAMBDA r1 :
        IF r1.raised
        THEN Raise([ctx EXCEPT !.heap = r1.heap], "KeyError", "conflict", Str(tag))
        ELSE With(NM_setitem(r1.heap, sid, "class_to_tag", cls, tag), LAMBDA r2 :
                IF r2.raised
                THEN Raise([ctx EXCEPT !.heap = r2.heap], "KeyError", "conflict",
                           NonStr("class"))
                ELSE [ctx EXCEPT !.heap = r2.heap, !.key = Str(tag)]))

NewRoot(ctx, cs, r, cls, parent_registry) ==
    [ctx EXCEPT
        !.heap = Append(@, NewState(IF parent_registry = None THEN 0
                                    ELSE ctx.rs[parent_registry].state)),
        !.rs = [c \in DOMAIN @ \cup {cls} |->
                  IF c = cls THEN [state |-> Len(ctx.heap) + 1,
                                   tag_kwarg |-> cs[r].tag_kwarg]
                  ELSE @[c]]]

\* Mutant of init_subclass: a variant is registered under the last family root
\* of its MRO instead of the first.
init_subclass_topmost(ctx, cs, r, cls, bases, tag) ==
    With(get_parent_registry_root(ctx.rs, cls, ctx.mro), LAMBDA parent_registry :
        IF r \in SeqSet(bases)
        THEN With(NewRoot(ctx, cs, r, cls, parent_registry), LAMBDA c1 :
                IF tag # SENTINEL THEN Raise(c1, "TypeError", "root_tag", tag)
                ELSE IF c1.hook # "none" THEN Raise(c1, "TypeError", "root_hook", tag)
                ELSE [c1 EXCEPT !.hook = "root", !.hook_kwarg = cs[r].tag_kwarg])
        ELSE IF parent_registry = None THEN ctx
        ELSE IF tag = SENTINEL THEN ctx
        ELSE IF ~tag.isstr \/ tag.v = "" THEN Raise(ctx, "TypeError", "bad_tag", tag)
        ELSE With(get_registry_root_iter(ctx.rs, cls, ctx.mro), LAMBDA it :
             With(RegisterVariant(ctx, ctx.rs[it[Len(it)]].state, tag.v, cls),
                  LAMBDA c1 :
                IF c1.exc # "" THEN c1
                ELSE IF c1.hook # "none" THEN Raise(c1, "TypeError", "variant_hook", tag)
                ELSE [c1 EXCEPT !.hook = "variant", !.hook_kwarg = cs[r].tag_kwarg])))

\* Mutant of init_subclass: the hook is attached without looking whether
\* the class body defines one.
init_subclass_overwrite(ctx, cs, r, cls, bases, tag) ==
    With(get_parent_registry_root(ctx.rs, cls, ctx.mro), LAMBDA parent_registry :
        IF r \in SeqSet(bases)
        THEN With(NewRoot(ctx, cs, r, cls, parent_registry), LAMBDA c1 :
                IF tag # SENTINEL THEN Raise(c1, "TypeError", "root_tag", tag)
                ELSE [c1 EXCEPT !.hook = "root", !.hook_kwarg = cs[r].tag_kwarg])
        ELSE IF parent_registry = None THEN ctx
        ELSE IF tag = SENTINEL THEN ctx
        ELSE IF ~tag.isstr \/ tag.v = "" THEN Raise(ctx, "TypeError", "bad_tag", tag)
        ELSE With(RegisterVariant(ctx, ctx.rs[parent_registry].state, tag.v, cls),
                  LAMBDA c1 :
                IF c1.exc # "" THEN c1
                ELSE [c1 EXCEPT !.hook = "variant", !.hook_kwarg = cs[r].tag_kwarg]))

init_subclass(ctx, cs, r, cls, bases, tag) ==
    With(get_parent_registry_root(ctx.rs, cls, ctx.mro), LAMBDA parent_registry :
        IF r \in SeqSet(bases)
        THEN With(NewRoot(ctx, cs, r, cls, parent_registry), LAMBDA c1 :
                IF tag # SENTINEL THEN Raise(c1, "TypeError", "root_tag", tag)
                ELSE IF c1.hook # "none" THEN Raise(c1, "TypeError", "root_hook", tag)
                ELSE [c1 EXCEPT !.hook = "root", !.hook_kwarg = cs[r].tag_kwarg])
        ELSE IF parent_registry = None THEN ctx
        ELSE IF tag = SENTINEL THEN ctx
        ELSE IF ~tag.isstr \/ tag.v = "" THEN Raise(ctx, "TypeError", "bad_tag", tag)
        ELSE With(RegisterVariant(ctx, ctx.rs[parent_registry].state, tag.v, cls),
                  LAMBDA c1 :
                IF c1.exc # "" THEN c1
                ELSE IF c1.hook # "none" THEN Raise(c1, "TypeError", "variant_hook", tag)
                ELSE [c1 EXCEPT !.hook = "variant", !.hook_kwarg = cs[r].tag_kwarg]))

\* The chain of __init_subclass__ calls of one class creation: every Registry
\* base of the MRO pops its own keyword and calls super() first, so leftover
\* keywords reach object.__init_subclass__ (TypeError) before any body runs,
\* and the bodies then run from the last Registry of the MRO to the first.
RegistriesOf(cs, mro) == SelectSeq(mro, LAMBDA c : c <= Len(cs) /\ cs[c].registry)

PoppedTag(cs, regs, kwargs, i) ==
    IF /\ cs[regs[i]].tag_kwarg \in DOMAIN kwargs
       /\ \A j \in 1..(i - 1) : cs[regs[j]].tag_kwarg # cs[regs[i]].tag_kwarg
    THEN kwargs[cs[regs[i]].tag_kwarg] ELSE SENTINEL

RECURSIVE RunBodies(_, _, _, _, _, _, _)
RunBodies(ctx, cs, regs, cls, bases, kwargs, i) ==
    IF i = 0 \/ ctx.exc # "" THEN ctx
    ELSE With(init_subclass(ctx, cs, regs[i], cls, bases, PoppedTag(cs, regs, kwargs, i)),
              LAMBDA c1 : RunBodies(c1, cs, regs, cls, bases, kwargs, i - 1))

NoExc(h, rs, hook, mro) ==
    [heap |-> h, rs |-> rs, hook |-> hook, hook_kwarg |-> "", mro |-> mro,
     exc |-> "", msg |-> "", key |-> SENTINEL]

CreateClass(h, rs, cs, bases, kwargs, ownHook) ==
    With(Linearize(cs, Len(cs) + 1, bases), LAMBDA lin :
        With(NoExc(h, rs, IF ownHook THEN "own" ELSE "none", lin.value), LAMBDA ctx0 :
            With(RegistriesOf(cs, lin.value), LAMBDA regs :
                IF ~lin.ok THEN Raise(ctx0, "TypeError", "mro", SENTINEL)
                ELSE IF \E k \in DOMAIN kwargs :
                            \A i \in 1..Len(regs) : cs[regs[i]].tag_kwarg # k
                     THEN Raise(ctx0, "TypeError", "kwargs", SENTINEL)
                     ELSE RunBodies(ctx0, cs, regs, Len(cs) + 1, bases, kwargs,
                                    Len(regs)))))

\* ------------------------------------------------------------- the state
\* A class object is held strongly by the plain dicts it was stored in.
RegisteredAnywhere(h, c) ==
    \E id \in 1..Len(h) : \/ c \in Range(h[id].tag_to_class.base)
                          \/ c \in DOMAIN h[id].class_to_tag.base

\* One class statement `class X(*bases, **kwargs)` run in the state st,
\* ownHook telling whether its body defines __get_pydantic_core_schema__.
\* The class object stays around when the statement completed or when a store
\* or REGISTRY_STATE took hold of it before the statement raised.
ClassStatement(st, bases, kwargs, ownHook) ==
    With(CreateClass(st.heap, st.rs, st.classes, bases, kwargs, ownHook), LAMBDA ctx :
        With(\/ ctx.exc = ""
             \/ Len(st.classes) + 1 \in DOMAIN ctx.rs
             \/ RegisteredAnywhere(ctx.heap, Len(st.classes) + 1),
             LAMBDA kept :
            [classes |-> IF kept
                         THEN Append(st.classes,
                                     [bases |-> bases, mro |-> ctx.mro, registry |-> FALSE,
                                      tag_kwarg |-> "", hook |-> ctx.hook,
                                      hook_kwarg |-> ctx.hook_kwarg,
                                      defined |-> ctx.exc = ""])
                         ELSE st.classes,
             heap |-> ctx.heap, rs |-> ctx.rs, kept |-> kept,
             exc |-> ctx.exc, msg |-> ctx.msg, key |-> ctx.key]))

RegistryClass(c) ==
    [bases |-> <<>>, mro |-> <<c>>, registry |-> TRUE, tag_kwarg |-> RegistryKwargs[c],
     hook |-> "registry", hook_kwarg |-> RegistryKwargs[c], defined |-> TRUE]

\* After import and the program's create_registry calls.
Fresh ==
    [classes |-> [c \in 1..Len(RegistryKwargs) |-> RegistryClass(c)],
     heap |-> <<>>, rs |-> EmptyMap,
     kept |-> FALSE, exc |-> "", msg |-> "", key |-> SENTINEL]

\* The class statements of a prepared hierarchy, run one after the other.
RECURSIVE Declarations(_, _)
Declarations(st, stmts) ==
    IF stmts = <<>> THEN st
    ELSE With(ClassStatement(st, Head(stmts).bases, Head(stmts).kwargs, FALSE),
              LAMBDA st1 : Declarations(st1, Tail(stmts)))

Stmt(bases, kwargs) == [bases |-> bases, kwargs |-> kwargs]
FirstClass == Len(RegistryKwargs) + 1

\* A family hierarchy a program has declared before: a root family with one
\* variant tagged "a", and d - 1 families nested below it, each derived from
\* the one before (class F_k(F_k-1, Registry)).
Chain(d) ==
    Declarations(Fresh,
        <<Stmt(<<1>>, EmptyMap),
          Stmt(<<FirstClass>>, (RegistryKwargs[1] :> Str("a")))>>
        \o [k \in 1..(d - 1) |->
              Stmt(<<IF k = 1 THEN FirstClass ELSE FirstClass + k, 1>>, EmptyMap)])

\* Two unrelated families, one per Registry base: class P(Registry) and
\* class Q(KindRegistry).
TwoFamilies == Declarations(Fresh, <<Stmt(<<1>>, EmptyMap), Stmt(<<2>>, EmptyMap)>>)

\* A root family with a variant tagged "a" and two sibling families derived
\* from the root.
Siblings ==
    Declarations(Fresh,
        <<Stmt(<<1>>, EmptyMap),
          Stmt(<<FirstClass>>, (RegistryKwargs[1] :> Str("a"))),
          Stmt(<<FirstClass, 1>>, EmptyMap),
          Stmt(<<FirstClass, 1>>, EmptyMap)>>)

\* Two lineages with no common family: the families of Chain(3), and an
\* unrelated root family with its own variant tagged "a".
TwoLineages ==
    Declarations(Chain(3),
        <<Stmt(<<1>>, EmptyMap),
          Stmt(<<FirstClass + 4>>, (RegistryKwargs[1] :> Str("a")))>>)

IsRegistry(c) == classes[c].registry
UserClasses == {c \in 1..Len(classes) : ~classes[c].registry}

\* The classes a program can name: those whose class statement completed and
\* those it can fetch back from a store.
Reachable(c) == classes[c].defined \/ RegisteredAnywhere(heap, c)
ReachableClasses == {c \in 1..Len(classes) : Reachable(c)}

\* `last` records the last operation with its inputs and outcome; clean tells
\* that no class statement has raised so far.
NoOp == [op |-> "init", cls |-> None, bases |-> <<>>, kwargs |-> EmptyMap,
         ownHook |-> FALSE, exc |-> "", msg |-> "", key |-> SENTINEL,
         clean |-> TRUE]

\* A value on either side of the schema: an instance of class cls with field
\* value x, or a map with the fields x and the tag keys tags.
NoValue == [kind |-> "none", cls |-> None, x |-> 0, tags |-> EmptyMap]
Instance(c, v) == [kind |-> "instance", cls |-> c, x |-> v, tags |-> EmptyMap]
Map(v, tgs) == [kind |-> "map", cls |-> None, x |-> v, tags |-> tgs]

\* Nothing was encoded or decoded yet.
NoIO == [op |-> "none", F |-> None, mode |-> "", input |-> NoValue,
         origin |-> NoValue, via |-> None, exc |-> "", output |-> NoValue]

\* A thread that runs no class statement: pc is the statement it is about to
\* execute, m and at the view and the mapping whose __setitem__ it is in.
Threads == {1, 2}
Idle == [pc |-> "idle", cls |-> None, F |-> None, tag |-> "", m |-> "", at |-> None,
         exc |-> ""]
NoThreads == [t \in Threads |-> Idle]

\* The program holds no dict yet.
NoHeld == [of |-> None, alias |-> 0, value |-> EmptyMap, edits |-> 0]

InitFrom(st) ==
    /\ classes = st.classes
    /\ heap = st.heap
    /\ REGISTRY_STATE = st.rs
    /\ budget = MaxClasses
    /\ last = NoOp
    /\ held = NoHeld
    /\ attrs = EmptyMap
    /\ schemas = EmptyMap
    /\ io = NoIO
    /\ threads = NoThreads
    /\ overlapped = FALSE

Init == InitFrom(Fresh) \/ InitFrom(TwoFamilies)

InitDeep ==
    \/ \E d \in 1..MaxDepth : InitFrom(Chain(d))
    \/ InitFrom(Siblings)
    \/ InitFrom(TwoLineages)

DeclareClass(bases, kwargs, ownHook) ==
    /\ budget > 0
    /\ \E r \in {ClassStatement([classes |-> classes, heap |-> heap, rs |-> REGISTRY_STATE],
                                bases, kwargs, ownHook)} :
          /\ classes' = r.classes
          /\ heap' = r.heap
          /\ REGISTRY_STATE' = r.rs
          /\ budget' = budget - 1
          /\ last' = [op |-> "declare", cls |-> Len(classes) + 1, bases |-> bases,
                      kwargs |-> kwargs, ownHook |-> ownHook,
                      exc |-> r.exc, msg |-> r.msg, key |-> r.key,
                      clean |-> last.clean /\ r.exc = ""]
          /\ UNCHANGED <<client, conc>>

\* REGISTRY_STATE is a WeakKeyDictionary: the entry of a class that no name
\* and no store refers to goes away whenever the collector runs.
Collect(c) ==
    /\ c \in DOMAIN REGISTRY_STATE
    /\ ~Reachable(c)
    /\ REGISTRY_STATE' = [x \in DOMAIN REGISTRY_STATE \ {c} |-> REGISTRY_STATE[x]]
    /\ last' = [NoOp EXCEPT !.op = "collect", !.cls = c, !.clean = last.clean]
    /\ UNCHANGED <<classes, heap, budget, client, conc>>

BaseLists ==
    {<<c>> : c \in ReachableClasses}
        \cup {p \in ReachableClasses \X ReachableClasses : p[1] # p[2]}

KwargSets == UNION {[K -> TagValues] : K \in SUBSET TagKwargs}

Next ==
    \/ \E bases \in BaseLists, kwargs \in KwargSets, ownHook \in BOOLEAN :
          DeclareClass(bases, kwargs, ownHook)
    \/ \E c \in DOMAIN REGISTRY_STATE : Collect(c)

Spec == Init /\ [][Next]_vars

\* The deep hierarchies are explored within the default Registry family:
\* single inheritance, or a family derived from an existing class.
DeepBaseLists ==
    {<<c>> : c \in ReachableClasses \ {2}}
        \cup {<<c, 1>> : c \in ReachableClasses \ {1, 2}}

DeepKwargSets == UNION {[K -> TagValues] : K \in SUBSET {RegistryKwargs[1]}}

NextDeep ==
    \/ \E bases \in DeepBaseLists, kwargs \in DeepKwargSets, ownHook \in BOOLEAN :
          DeclareClass(bases, kwargs, ownHook)
    \/ \E c \in DOMAIN REGISTRY_STATE : Collect(c)

SpecDeep == InitDeep /\ [][NextDeep]_vars

\* ------------------------------------------------ the queries of utils.py
\* A query returns [exc, value]: exc is "" or the exception raised.
Ok(v) == [exc |-> "", value |-> v]
Exc(e) == [exc |-> e, value |-> None]

RootOf(cls) == get_parent_registry_root(REGISTRY_STATE, cls, classes[cls].mro)

get_tag_to_class_mapping(cls) ==
    LET root == RootOf(cls)
    IN IF root = None THEN [exc |-> "TypeError", value |-> EmptyMap]
       ELSE DictOf(heap, REGISTRY_STATE[root].state, "tag_to_class")

tags(cls) ==
    LET m == get_tag_to_class_mapping(cls)
    IN IF m.exc # "" THEN [exc |-> m.exc, value |-> {}] ELSE Ok(DOMAIN m.value)

by_tag(cls, tag) ==
    LET m == get_tag_to_class_mapping(cls)
    IN IF m.exc # "" THEN Exc(m.exc)
       ELSE IF tag \in DOMAIN m.value THEN Ok(m.value[tag]) ELSE Exc("KeyError")

\* tag_of walks class_to_tag.items() in the order of the _own set and stops
\* at the entry; a key met before it whose lookup raises ends the walk, so
\* with such keys present both outcomes are possible.  The set of outcomes.
tag_of(cls, entry) ==
    LET root == RootOf(cls)
        sid == REGISTRY_STATE[root].state
        keys == NM_iter(heap, sid, "class_to_tag")
        bad == {k \in keys : NM_getitem(heap, sid, "class_to_tag", k).raised}
    IN IF root = None THEN {Exc("TypeError")}
       ELSE (IF bad # {} THEN {Exc("KeyError")} ELSE {})
            \cup (IF entry \in keys \ bad
                  THEN {Ok(NM_getitem(heap, sid, "class_to_tag", entry).value)}
                  ELSE IF bad = {} THEN {[exc |-> "", value |-> "None"]} ELSE {})

is_variant(cls, entry) ==
    LET m == get_tag_to_class_mapping(cls)
    IN IF m.exc # "" THEN [exc |-> m.exc, value |-> FALSE] ELSE Ok(entry \in Range(m.value))

get_tag_kwarg(cls) ==
    LET root == RootOf(cls)
    IN IF root = None THEN "None" ELSE REGISTRY_STATE[root].tag_kwarg

\* The families a program can name, and the family a store is layered on.
Families == {c \in DOMAIN REGISTRY_STATE : Reachable(c)}

\* ------------------------------------------------------------------ claims
Declared == last.op = "declare"
\* The last class statement completed and registered its class under a tag.
DeclaredVariant == Declared /\ last.exc = "" /\ last.key.isstr

\* The tags registered anywhere in the lineage of the family whose state is
\* sid.
LineageTags(h, sid) == DOMAIN h[LineageTop(h, sid)].tag_to_class.base

\* The class statement `class X(*bases, **kwargs)` about to run declares a
\* variant with one tag: X subclasses no Registry base directly (it declares
\* no family), the one keyword is the tag keyword of a Registry base of X's
\* MRO, the tag is a non-empty string, and X has a family in its ancestor
\* chain.
StmtMro(bases) == Linearize(classes, Len(classes) + 1, bases)
StmtFamily(bases) ==
    get_parent_registry_root(REGISTRY_STATE, Len(classes) + 1, StmtMro(bases).value)
VariantStatement(bases, kwargs) ==
    /\ StmtMro(bases).ok
    /\ Cardinality(DOMAIN kwargs) = 1
    /\ StmtFamily(bases) # None
    /\ \A r \in SeqSet(bases) : ~classes[r].registry
    /\ \A k \in DOMAIN kwargs :
          /\ kwargs[k].isstr /\ kwargs[k].v # ""
          /\ \E r \in SeqSet(StmtMro(bases).value) :
                r <= Len(classes) /\ classes[r].registry /\ classes[r].tag_kwarg = k
UsedTags(bases, kwargs) ==
    {kwargs[k].v : k \in DOMAIN kwargs}
        \cap LineageTags(heap, REGISTRY_STATE[StmtFamily(bases)].state)

\* C1: after a variant V is declared under family F with a tag t that is new
\* to F's lineage, by_tag(F, t) returns V and tag_of(F, V) returns t.
C1_LookupAfterDeclare ==
    DeclaredVariant =>
        /\ by_tag(RootOf(last.cls), last.key.v) = Ok(last.cls)
        /\ tag_of(RootOf(last.cls), last.cls) = {Ok(last.key.v)}

\* C2: a variant declaration whose tag is already registered anywhere in the
\* lineage of its family (at the family itself, an ancestor, a derived or a
\* sibling family) fails with KeyError naming that tag.
C2_DuplicateTagFails ==
    [][(/\ last'.op = "declare"
        /\ VariantStatement(last'.bases, last'.kwargs)
        /\ UsedTags(last'.bases, last'.kwargs) # {})
       => (/\ last'.exc = "KeyError" /\ last'.msg = "conflict"
           /\ last'.key.isstr
           /\ last'.key.v \in UsedTags(last'.bases, last'.kwargs))]_vars

\* A variant declared under one sibling family with the tag a variant of the
\* root owns was rejected, and so was one declared three families below the
\* owner of its tag.
C2_Witness ==
    /\ Declared /\ last.exc = "KeyError" /\ last.msg = "conflict"
    /\ Len(last.bases) = 1
    /\ last.bases[1] \in DOMAIN REGISTRY_STATE
    /\ heap[REGISTRY_STATE[last.bases[1]].state].store # 0
    /\ heap[heap[REGISTRY_STATE[last.bases[1]].state].store].store # 0
    /\ last.key.v \notin heap[heap[REGISTRY_STATE[last.bases[1]].state].store].tag_to_class.own

\* ---------------------------------------------- families and their variants
StateOf(F) == REGISTRY_STATE[F].state

\* The heap objects a store is layered on, itself included.
RECURSIVE StoreChain(_, _)
StoreChain(h, sid) ==
    {sid} \cup (IF h[sid].store = 0 THEN {} ELSE StoreChain(h, h[sid].store))

\* Family G is derived from family F: G's mappings are layered, directly or
\* through other families, on F's.
DerivedFrom(G, F) == G # F /\ StateOf(F) \in StoreChain(heap, StateOf(G))

\* The plain dict tag -> class at the top of F's lineage.
TopTagToClass(F) == heap[LineageTop(heap, StateOf(F))].tag_to_class.base

\* V is a variant registered under family F with tag t: V's class statement
\* completed, V is no family root, F is the nearest family of V's ancestor
\* chain and the lineage's dict maps t to V.
RegisteredAt(V, t, F) ==
    /\ classes[V].defined
    /\ V \notin DOMAIN REGISTRY_STATE
    /\ RootOf(V) = F
    /\ t \in DOMAIN TopTagToClass(F)
    /\ TopTagToClass(F)[t] = V

\* Two families with no common family ancestor: their stores end in different
\* dicts and no family is an ancestor class of both.
Unrelated(F1, F2) ==
    /\ LineageTop(heap, StateOf(F1)) # LineageTop(heap, StateOf(F2))
    /\ SeqSet(classes[F1].mro) \cap SeqSet(classes[F2].mro) \cap DOMAIN REGISTRY_STATE = {}

\* C3: registering a (tag, type) pair a Tag Store already holds succeeds and
\* changes nothing.
C3_ReRegisterIsNoOp ==
    \A F \in Families, V \in UserClasses, t \in Tags :
        RegisteredAt(V, t, F) =>
            /\ ~NM_setitem(heap, StateOf(F), "tag_to_class", t, V).raised
            /\ NM_setitem(heap, StateOf(F), "tag_to_class", t, V).heap = heap

\* C4: after class statements that all succeeded, tags(F) of every family F
\* is exactly the set of tags of the variants registered at F or at a family
\* derived from F.
C4_TagsAreSubtree ==
    last.clean =>
        \A F \in Families :
            tags(F) = Ok({t \in Tags :
                           \E G \in Families, V \in UserClasses :
                               /\ G = F \/ DerivedFrom(G, F)
                               /\ RegisteredAt(V, t, G)})

\* Family F holds a variant of its own, declared before the family G derived
\* from F, and G holds a variant declared after it: tags(F) has both tags and
\* tags(G) only the one of G.
C4_Witness ==
    /\ last.clean /\ DeclaredVariant
    /\ \E F \in Families, G \in Families, U \in UserClasses, u \in Tags :
          /\ DerivedFrom(G, F)
          /\ RegisteredAt(U, u, F) /\ U < G
          /\ RegisteredAt(last.cls, last.key.v, G)
          /\ tags(F) = Ok({u, last.key.v})
          /\ tags(G) = Ok({last.key.v})

\* C5: a variant V registered with tag t under a family B derived from family
\* A is visible from A: by_tag(A, t) is V, is_variant(A, V) is true and
\* tag_of(A, V) is t.
C5_VisibleFromAncestor ==
    \A A \in Families, B \in Families, V \in UserClasses, t \in Tags :
        (DerivedFrom(B, A) /\ RegisteredAt(V, t, B)) =>
            /\ by_tag(A, t) = Ok(V)
            /\ is_variant(A, V) = Ok(TRUE)
            /\ tag_of(A, V) = {Ok(t)}

\* C6: for a family B derived from family A and a variant V registered with
\* tag t directly under A, t is not in tags(B), by_tag(B, t) raises KeyError
\* and is_variant(B, V) is false.
C6_NoLeakDown ==
    \A A \in Families, B \in Families, V \in UserClasses, t \in Tags :
        (DerivedFrom(B, A) /\ RegisteredAt(V, t, A)) =>
            /\ tags(B).exc = "" /\ t \notin tags(B).value
            /\ by_tag(B, t) = Exc("KeyError")
            /\ is_variant(B, V) = Ok(FALSE)

\* C7: for two families F1 and F2 with no common family ancestor and every
\* variant V2 of F2, is_variant(F1, V2) is false and by_tag on F1 never
\* returns V2.
C7_Isolated ==
    \A F1 \in Families, F2 \in Families, V2 \in UserClasses, t \in Tags :
        (Unrelated(F1, F2) /\ RegisteredAt(V2, t, F2)) =>
            /\ is_variant(F1, V2) = Ok(FALSE)
            /\ \A u \in Tags : by_tag(F1, u) # Ok(V2)

\* The class statement about to run declares a variant with a tag that is
\* the empty string or not a string, and nothing else is wrong with it: X
\* subclasses no Registry base directly, has a family in its ancestor chain,
\* every keyword is the tag keyword of a Registry base of X's MRO, and a
\* keyword whose value is a non-empty string names a tag that is free in the
\* lineage.
InvalidTagStatement(bases, kwargs) ==
    /\ StmtMro(bases).ok
    /\ StmtFamily(bases) # None
    /\ \A r \in SeqSet(bases) : ~classes[r].registry
    /\ \E k \in DOMAIN kwargs : ~kwargs[k].isstr \/ kwargs[k].v = ""
    /\ \A k \in DOMAIN kwargs :
          /\ \E r \in SeqSet(StmtMro(bases).value) :
                r <= Len(classes) /\ classes[r].registry /\ classes[r].tag_kwarg = k
          /\ (kwargs[k].isstr /\ kwargs[k].v # "")
                => kwargs[k].v \notin
                      LineageTags(heap, REGISTRY_STATE[StmtFamily(bases)].state)

\* C8: a variant declaration whose tag is the empty string or not a string
\* raises the TypeError of the tag validation and changes no store.
C8_InvalidTagRejected ==
    [][(last'.op = "declare" /\ InvalidTagStatement(last'.bases, last'.kwargs))
       => (/\ last'.exc = "TypeError" /\ last'.msg = "bad_tag"
           /\ heap' = heap
           /\ REGISTRY_STATE' = REGISTRY_STATE)]_vars

\* C9: no family root is a value of a Tag Store, and is_variant(F, R) is false
\* for every family F and every family root R.
C9_RootNeverRegistered ==
    /\ \A id \in 1..Len(heap), R \in DOMAIN REGISTRY_STATE :
          R \notin Range(heap[id].tag_to_class.base)
    /\ \A F \in Families, R \in Families : is_variant(F, R) = Ok(FALSE)

\* C10: after a class T deriving from family F was declared with no tag and
\* no family of its own, is_variant(F, T) is false and tag_of(F, T) is None.
C10_IntermediateUntagged ==
    (/\ Declared /\ last.exc = "" /\ last.kwargs = EmptyMap
     /\ \A r \in SeqSet(last.bases) : ~classes[r].registry
     /\ RootOf(last.cls) # None)
    => /\ is_variant(RootOf(last.cls), last.cls) = Ok(FALSE)
       /\ tag_of(RootOf(last.cls), last.cls) = {[exc |-> "", value |-> "None"]}

\* C11: every query called with a class that has no family root in its
\* ancestor chain raises TypeError; get_tag_kwarg too returns no default.
C11_NoFamilyRaises ==
    \A c \in ReachableClasses :
        RootOf(c) = None =>
            /\ get_tag_to_class_mapping(c).exc = "TypeError"
            /\ tags(c).exc = "TypeError"
            /\ \A t \in Tags : by_tag(c, t) = Exc("TypeError")
            /\ \A e \in ReachableClasses :
                  /\ tag_of(c, e) = {Exc("TypeError")}
                  /\ is_variant(c, e).exc = "TypeError"
            /\ get_tag_kwarg(c) # "None"

\* The tag keywords of the Registry bases in the MRO of the class the last
\* class statement declared.
LastKeywords ==
    {classes[r].tag_kwarg :
        r \in {c \in SeqSet(Linearize(classes, last.cls, last.bases).value) :
                 c # last.cls /\ classes[c].registry}}

\* C18: a class statement that mixes Registry bases of different tag keywords
\* raises, and a family derived from another reports the same tag keyword.
C18_KeywordsNeverMix ==
    /\ (Declared /\ Cardinality(LastKeywords) > 1) => last.exc # ""
    /\ \A F \in Families, G \in Families :
          DerivedFrom(G, F) => get_tag_kwarg(G) = get_tag_kwarg(F)

\* C19: once a variant V is registered with tag t under family F, by_tag(G, t)
\* is V after every later step, for F and for every ancestor family G of F.
C19_AppendOnly ==
    [][\A F \in Families, G \in Families, V \in UserClasses, t \in Tags :
          (RegisteredAt(V, t, F) /\ (G = F \/ DerivedFrom(F, G)))
              => by_tag(G, t)' = Ok(V)]_vars

\* The families whose _own sets hold the entry of class V under tag t:
\* tag_to_class owns t in the lineage whose dict maps t to V, or class_to_tag
\* owns V.
Owners(h, rs, V, t) ==
    {G \in DOMAIN rs :
        \/ /\ t \in h[rs[G].state].tag_to_class.own
           /\ t \in DOMAIN h[LineageTop(h, rs[G].state)].tag_to_class.base
           /\ h[LineageTop(h, rs[G].state)].tag_to_class.base[t] = V
        \/ V \in h[rs[G].state].class_to_tag.own}

\* The families F's stores are layered on, F included.
Lineage(h, rs, F) == {G \in DOMAIN rs : rs[G].state \in StoreChain(h, rs[F].state)}

\* get_parent_registry_root and get_tag_to_class_mapping evaluated in the
\* state (h, rs, cs).
RootIn(rs, cs, cls) == get_parent_registry_root(rs, cls, cs[cls].mro)
MappingIn(h, rs, cs, cls) ==
    IF RootIn(rs, cs, cls) = None THEN [exc |-> "TypeError", value |-> EmptyMap]
    ELSE DictOf(h, rs[RootIn(rs, cs, cls)].state, "tag_to_class")

\* C20 as stated: a class statement that registered a variant V with tag t
\* registered it into the first family root F of V's MRO and into the owned
\* entries of no other family, and a query called with V is answered from F.
C20_ExactlyOneFamily ==
    [][(last'.op = "declare" /\ last'.exc = "" /\ last'.key.isstr)
       => /\ StmtFamily(last'.bases) # None
          /\ Owners(heap', REGISTRY_STATE', last'.cls, last'.key.v)
                = {StmtFamily(last'.bases)}
          /\ RootIn(REGISTRY_STATE', classes', last'.cls) = StmtFamily(last'.bases)
          /\ MappingIn(heap', REGISTRY_STATE', classes', last'.cls)
                = MappingIn(heap', REGISTRY_STATE', classes', StmtFamily(last'.bases))]_vars

\* C20 amended: the variant is owned by the first family root F of its MRO
\* and by the families F is layered on, and by no family besides these.
C20_NearestFamilyAndAncestors ==
    [][(last'.op = "declare" /\ last'.exc = "" /\ last'.key.isstr)
       => /\ StmtFamily(last'.bases) # None
          /\ Owners(heap', REGISTRY_STATE', last'.cls, last'.key.v)
                = Lineage(heap', REGISTRY_STATE', StmtFamily(last'.bases))
          /\ RootIn(REGISTRY_STATE', classes', last'.cls) = StmtFamily(last'.bases)
          /\ MappingIn(heap', REGISTRY_STATE', classes', last'.cls)
                = MappingIn(heap', REGISTRY_STATE', classes', StmtFamily(last'.bases))]_vars

\* A variant was registered under a family that is layered on another one
\* and has a sibling family, through a base class that is not the family.
C20_Witness ==
    /\ DeclaredVariant
    /\ heap[StateOf(RootOf(last.cls))].store # 0
    /\ \E G \in Families :
          G \notin Lineage(heap, REGISTRY_STATE, RootOf(last.cls))
          /\ RootOf(last.cls) \notin Lineage(heap, REGISTRY_STATE, G)
    /\ last.bases[1] # RootOf(last.cls)

\* ------------------------------------------- the dict a program was handed
\* Mutant of ReturnedMapping: the NarrowingMapping itself is returned.
ReturnedMapping_live(h, sid) ==
    [alias |-> sid, value |-> DictOf(h, sid, "tag_to_class").value]

\* get_tag_to_class_mapping returns dict(state["tag_to_class"]): a new dict
\* (alias = 0) with the entries of the mapping whose heap object is sid.
ReturnedMapping(h, sid) ==
    [alias |-> 0, value |-> DictOf(h, sid, "tag_to_class").value]

\* mapping = get_tag_to_class_mapping(F), for a call that does not raise.
\* The program takes one dict in a run.
GetMapping(F) ==
    /\ held.of = None
    /\ get_tag_to_class_mapping(F).exc = ""
    /\ \E r \in {ReturnedMapping(heap, StateOf(RootOf(F)))} :
          held' = [of |-> F, alias |-> r.alias, value |-> r.value, edits |-> 0]
    /\ last' = [NoOp EXCEPT !.op = "get_mapping", !.cls = F, !.clean = last.clean]
    /\ UNCHANGED <<classes, heap, REGISTRY_STATE, budget, attrs, schemas, io, conc>>

\* The edit raises KeyError: del of a key a dict does not hold, or the
\* __setitem__ or __delitem__ of the aliased store raising.
EditRaises(kind, t, v) ==
    IF held.alias = 0 THEN kind = "del" /\ t \notin DOMAIN held.value
    ELSE IF kind = "set" THEN NM_setitem(heap, held.alias, "tag_to_class", t, v).raised
    ELSE NM_delitem(heap, held.alias, "tag_to_class", t).raised

\* mapping[t] = v (kind "set": adds or replaces) or del mapping[t] (kind
\* "del") on the held object: a dict of its own, or the store it aliases.
EditHeld(kind, t, v) ==
    /\ held.of # None
    /\ held.edits < MaxEdits
    /\ IF held.alias = 0
       THEN /\ held' = [held EXCEPT
                          !.edits = @ + 1,
                          !.value = IF kind = "set"
                                    THEN [k \in DOMAIN @ \cup {t} |->
                                            IF k = t THEN v ELSE @[k]]
                                    ELSE [k \in DOMAIN @ \ {t} |-> @[k]]]
            /\ heap' = heap
       ELSE /\ held' = [held EXCEPT !.edits = @ + 1]
            /\ heap' = IF kind = "set"
                       THEN NM_setitem(heap, held.alias, "tag_to_class", t, v).heap
                       ELSE NM_delitem(heap, held.alias, "tag_to_class", t).heap
    /\ last' = [NoOp EXCEPT !.op = "edit", !.msg = kind, !.key = Str(t), !.cls = v,
                            !.exc = IF EditRaises(kind, t, v) THEN "KeyError" ELSE "",
                            !.clean = last.clean]
    /\ UNCHANGED <<classes, REGISTRY_STATE, budget, attrs, schemas, io, conc>>

InitCopy == InitFrom(Chain(2))

\* Between taking the dict and editing it the program declares classes with
\* one base and a string tag, or no tag.
CopyKwargSets ==
    {EmptyMap} \cup {[k \in {RegistryKwargs[1]} |-> Str(t)] : t \in Tags}

NextCopy ==
    \/ \E c \in ReachableClasses \ {2}, kwargs \in CopyKwargSets :
          DeclareClass(<<c>>, kwargs, FALSE)
    \/ \E F \in ReachableClasses : GetMapping(F)
    \/ \E kind \in {"set", "del"}, t \in Tags, v \in UserClasses : EditHeld(kind, t, v)

SpecCopy == InitCopy /\ [][NextCopy]_vars

\* C17: adding, replacing or deleting an entry of the dict returned by
\* get_tag_to_class_mapping changes no store, and so no later result of
\* get_tag_to_class_mapping for any class.
C17_MappingIsCopy ==
    [][last'.op = "edit"
       => /\ heap' = heap
          /\ \A c \in ReachableClasses :
                MappingIn(heap', REGISTRY_STATE', classes', c)
                    = MappingIn(heap, REGISTRY_STATE, classes, c)]_vars

\* The dict got from a family layered on another one was edited twice and
\* now differs from what the family answers, which still has its entries.
C17_Witness ==
    /\ last.op = "edit" /\ last.exc = "" /\ held.edits = 2
    /\ heap[StateOf(RootOf(held.of))].store # 0
    /\ get_tag_to_class_mapping(held.of).exc = ""
    /\ get_tag_to_class_mapping(held.of).value # EmptyMap
    /\ held.value # get_tag_to_class_mapping(held.of).value

\* -------------------------------------------------------- tagged_dataclass
\* Annotations of the tag field: none, str, or Literal[tag].
NoAnn == [kind |-> "None", arg |-> ""]
StrAnn == [kind |-> "str", arg |-> ""]
LiteralAnn(t) == [kind |-> "Literal", arg |-> t]

\* A name the class namespace does not hold.
NoField == [ann |-> NoAnn, default |-> SENTINEL, init |-> FALSE]

OwnField(at, c, k) ==
    IF c \in DOMAIN at /\ k \in DOMAIN at[c] THEN at[c][k] ELSE NoField

\* getattr(cls, k, SENTINEL): the attribute of the first class of the MRO
\* whose namespace has it.
RECURSIVE GetAttr(_, _, _)
GetAttr(at, mro, k) ==
    IF mro = <<>> THEN SENTINEL
    ELSE IF OwnField(at, Head(mro), k).default # SENTINEL
         THEN OwnField(at, Head(mro), k).default
         ELSE GetAttr(at, Tail(mro), k)

\* The annotation comes from the class's own __annotations__, the default
\* from attribute lookup, which sees the base classes.
get_existing_field_info(at, cs, cls, k) ==
    [annotation |-> OwnField(at, cls, k).ann, default |-> GetAttr(at, cs[cls].mro, k)]

SetField(at, c, k, f) ==
    [d \in DOMAIN at \cup {c} |->
        IF d = c
        THEN [j \in (IF c \in DOMAIN at THEN DOMAIN at[c] ELSE {}) \cup {k} |->
                IF j = k THEN f ELSE at[c][j]]
        ELSE at[d]]

\* The decorator of _dataclass applied to target_cls: [exc, msg, attrs].
\* dataclasses.dataclass leaves each field's default as the class attribute.
decorator(at, target_cls) ==
    IF target_cls \in DOMAIN REGISTRY_STATE
    THEN [exc |-> "", msg |-> "", attrs |-> at]
    ELSE With(RootOf(target_cls), LAMBDA registry_root :
        IF registry_root = None
        THEN [exc |-> "TypeError", msg |-> "must inherit from a Registry", attrs |-> at]
        ELSE With(REGISTRY_STATE[registry_root], LAMBDA registry_state :
            IF ~NM_contains(heap, registry_state.state, "class_to_tag", target_cls)
            THEN [exc |-> "TypeError", msg |-> "is not registered", attrs |-> at]
            ELSE With(NM_getitem(heap, registry_state.state, "class_to_tag", target_cls),
                      LAMBDA tag_value :
                IF tag_value.raised
                THEN [exc |-> "KeyError", msg |-> "Key not found", attrs |-> at]
                ELSE With(get_existing_field_info(at, classes, target_cls,
                                                  registry_state.tag_kwarg),
                          LAMBDA existing :
                    IF existing.annotation = NoAnn /\ existing.default = SENTINEL
                    THEN [exc |-> "", msg |-> "",
                          attrs |-> SetField(at, target_cls, registry_state.tag_kwarg,
                                       [ann |-> LiteralAnn(tag_value.value),
                                        default |-> Str(tag_value.value),
                                        init |-> FALSE])]
                    ELSE IF existing.annotation # StrAnn
                              \/ existing.default # Str(tag_value.value)
                         THEN [exc |-> "TypeError", msg |-> "already has field",
                               attrs |-> at]
                         ELSE [exc |-> "", msg |-> "", attrs |-> at]))))

\* tagged_dataclass(c)
TaggedDataclass(c) ==
    /\ \E r \in {decorator(attrs, c)} :
          /\ attrs' = r.attrs
          /\ last' = [NoOp EXCEPT !.op = "tagged_dataclass", !.cls = c,
                                  !.exc = r.exc, !.msg = r.msg,
                                  !.clean = last.clean]
    /\ UNCHANGED <<classes, heap, REGISTRY_STATE, budget, held, schemas, io, conc>>

\* class F(Registry) and class V(F, _type_tag="a") whose body declares no
\* field of that name, or _type_tag: str = "a", or _type_tag: str = "b".
InitDataclass ==
    /\ classes = Chain(1).classes
    /\ heap = Chain(1).heap
    /\ REGISTRY_STATE = Chain(1).rs
    /\ budget = MaxClasses
    /\ last = NoOp
    /\ held = NoHeld
    /\ schemas = EmptyMap
    /\ io = NoIO
    /\ threads = NoThreads
    /\ overlapped = FALSE
    /\ attrs \in {EmptyMap}
          \cup {SetField(EmptyMap, FirstClass + 1, RegistryKwargs[1],
                         [ann |-> StrAnn, default |-> Str(t), init |-> TRUE]) :
                  t \in Tags}

NextDataclass ==
    \/ \E c \in ReachableClasses \ {2}, kwargs \in CopyKwargSets :
          DeclareClass(<<c>>, kwargs, FALSE)
    \/ \E c \in ReachableClasses : TaggedDataclass(c)

SpecDataclass == InitDataclass /\ [][NextDataclass]_vars

\* The tag under which class c is registered in its family, or "" when it is
\* not a registered variant.
RegisteredTag(c) ==
    IF RootOf(c) = None \/ c \in DOMAIN REGISTRY_STATE THEN ""
    ELSE With(NM_getitem(heap, StateOf(RootOf(c)), "class_to_tag", c), LAMBDA g :
            IF g.raised THEN "" ELSE g.value)

\* C16: tagged_dataclass(V), for a registered variant V with tag t whose own
\* body declares no field named by the family's keyword k, succeeds and
\* leaves V with a field k of default t and init=False, so that instance.k
\* equals tag_of(F, V); also when V subclasses a tagged_dataclass variant.
C16_TagFieldAdded ==
    [][(/\ last'.op = "tagged_dataclass"
        /\ RegisteredTag(last'.cls) # ""
        /\ OwnField(attrs, last'.cls, get_tag_kwarg(last'.cls)) = NoField)
       => /\ last'.exc = ""
          /\ OwnField(attrs', last'.cls, get_tag_kwarg(last'.cls))
                = [ann |-> LiteralAnn(RegisteredTag(last'.cls)),
                   default |-> Str(RegisteredTag(last'.cls)),
                   init |-> FALSE]
          /\ GetAttr(attrs', classes[last'.cls].mro, get_tag_kwarg(last'.cls))
                = Str(RegisteredTag(last'.cls))]_vars

\* ------------------------------------------------ the pydantic core schemas
\* Every class of the model has one field; its values:
FieldValues == {1, 2}

Instances == {Instance(c, v) : c \in UserClasses \cap ReachableClasses, v \in FieldValues}

isinstance(value, c) ==
    value.kind = "instance" /\ c \in SeqSet(classes[value.cls].mro)

\* Outcomes of validation and serialization: [exc, output].
Returned(v) == [exc |-> "", output |-> v]
Raised(e) == [exc |-> e, output |-> NoValue]

NoSchema == [choices |-> EmptyMap, instances |-> {}, tag_kwarg |-> "", tag_to_class |-> 0]

\* choices and the classes of is_instance_schema are computed from
\* tag_to_class.items() and .values() when the schema is created; the
\* serializer closure keeps the mapping itself (its heap object).
create_pydantic_tagged_union_schema(h, sid, tag_kwarg) ==
    With(DictOf(h, sid, "tag_to_class"), LAMBDA d :
        IF d.exc # "" THEN [exc |-> d.exc, schema |-> NoSchema]
        ELSE [exc |-> "",
              schema |-> [choices |-> d.value, instances |-> Range(d.value),
                          tag_kwarg |-> tag_kwarg, tag_to_class |-> sid]])

\* Mutant of tagged_union_schema: a map whose tag selects no choice is
\* validated by some choice instead of being rejected.
tagged_union_schema_lenient(schema, value) ==
    IF value.kind # "map" THEN Raised("rejected")
    ELSE IF /\ schema.tag_kwarg \in DOMAIN value.tags
            /\ value.tags[schema.tag_kwarg] \in DOMAIN schema.choices
         THEN Returned(Instance(schema.choices[value.tags[schema.tag_kwarg]], value.x))
         ELSE IF schema.choices = EmptyMap THEN Raised("unknown tag")
              ELSE Returned(Instance(
                       schema.choices[CHOOSE t \in DOMAIN schema.choices : TRUE],
                       value.x))

\* cs.tagged_union_schema(discriminator=tag_kwarg, choices=choices): the
\* choice named by the value of the tag key validates the map.
tagged_union_schema(schema, value) ==
    IF value.kind # "map" THEN Raised("rejected")
    ELSE IF schema.tag_kwarg \notin DOMAIN value.tags THEN Raised("missing tag")
    ELSE IF value.tags[schema.tag_kwarg] \notin DOMAIN schema.choices
         THEN Raised("unknown tag")
         ELSE Returned(Instance(schema.choices[value.tags[schema.tag_kwarg]], value.x))

\* cs.json_or_python_schema: JSON input goes to the tagged union; Python
\* input first to is_instance_schema, then to the tagged union.
validate(schema, mode, value) ==
    IF mode = "json" THEN tagged_union_schema(schema, value)
    ELSE IF \E c \in schema.instances : isinstance(value, c) THEN Returned(value)
    ELSE tagged_union_schema(schema, value)

\* union_serializer: the first (tag, class) of tag_to_class.items() whose
\* class the value is an instance of gives the tag.  The keys are iterated
\* in the order of the set _own, which differs from run to run: the set of
\* outcomes.  A key that cannot be resolved raises when it is reached.
union_serializer(h, schema, value) ==
    LET sid == schema.tag_to_class
        keys == NM_iter(h, sid, "tag_to_class")
        bad == {k \in keys : NM_getitem(h, sid, "tag_to_class", k).raised}
        hits == {k \in keys \ bad :
                    isinstance(value, NM_getitem(h, sid, "tag_to_class", k).value)}
    IN {Returned(Map(value.x, (schema.tag_kwarg :> k))) : k \in hits}
          \cup (IF bad # {} THEN {Raised("KeyError")} ELSE {})
          \cup (IF hits = {} /\ bad = {} THEN {Returned(Map(value.x, EmptyMap))} ELSE {})

\* The class of the MRO whose namespace holds __get_pydantic_core_schema__.
RECURSIVE HookClass(_)
HookClass(mro) ==
    IF mro = <<>> THEN None
    ELSE IF classes[Head(mro)].hook # "none" THEN Head(mro)
    ELSE HookClass(Tail(mro))

\* tag_kwarg of the create_registry call whose closure the hook in the
\* namespace of class c is: that of the Registry base whose
\* __init_subclass__ attached it, or, for a Registry base, its own.
HookKwarg(c) == classes[c].hook_kwarg

\* create_variant_serializer(tag, tag_kwarg)
variant_serializer(tag, tag_kwarg, value) ==
    Returned(Map(value.x, (tag_kwarg :> tag)))

\* Serializing value with the schema of its own class.
\* get_variant_pydantic_core_schema: the tag of the class itself, looked up
\* in the family of get_parent_registry_root; the default schema for a
\* class with no tag.  get_registry_pydantic_core_schema: the tagged union
\* for a family root, the default schema for any other class.
own_schema_serializer(value) ==
    With(HookClass(classes[value.cls].mro), LAMBDA hc :
        IF hc = None THEN {Returned(Map(value.x, EmptyMap))}
        ELSE IF classes[hc].hook = "variant"
        THEN IF RootOf(value.cls) = None THEN {Raised("AssertionError")}
             ELSE With(NM_getitem(heap, StateOf(RootOf(value.cls)), "class_to_tag",
                                  value.cls), LAMBDA g :
                     IF g.raised THEN {Returned(Map(value.x, EmptyMap))}
                     ELSE {variant_serializer(g.value, HookKwarg(hc), value)})
        ELSE IF value.cls \in DOMAIN REGISTRY_STATE
        THEN With(create_pydantic_tagged_union_schema(heap, StateOf(value.cls),
                                                      HookKwarg(hc)), LAMBDA r :
                IF r.exc # "" THEN {Raised(r.exc)}
                ELSE union_serializer(heap, r.schema, value))
        ELSE {Returned(Map(value.x, EmptyMap))})

\* F.__get_pydantic_core_schema__(F, handler) for a key F of REGISTRY_STATE:
\* get_registry_pydantic_core_schema (the hook of a family root and of the
\* Registry bases) returns the tagged union of REGISTRY_STATE[F];
\* get_variant_pydantic_core_schema returns the default schema of the class,
\* which is no tagged union.
HookSchema(h, F) ==
    With(HookClass(classes[F].mro), LAMBDA hc :
        IF classes[hc].hook \in {"root", "registry"}
        THEN create_pydantic_tagged_union_schema(h, StateOf(F), HookKwarg(hc))
        ELSE [exc |-> "", schema |-> NoSchema])

\* A schema for family root F is generated: TypeAdapter(F), or a model with
\* a field of type F.  schemas keeps the tagged unions.
BuildSchema(F) ==
    /\ \E r \in {HookSchema(heap, F)} :
          /\ schemas' = IF r.exc # "" \/ r.schema = NoSchema THEN schemas
                        ELSE [G \in DOMAIN schemas \cup {F} |->
                                IF G = F THEN r.schema ELSE schemas[G]]
          /\ io' = [NoIO EXCEPT !.op = "build", !.F = F, !.exc = r.exc]
    /\ UNCHANGED <<classes, heap, REGISTRY_STATE, budget, last, held, attrs, conc>>

\* value is serialized with the schema built for family root F, or with the
\* schema of its own class (F = None).
Encode(F, value) ==
    /\ F # None => F \in DOMAIN schemas
    /\ \E r \in (IF F = None THEN own_schema_serializer(value)
                 ELSE union_serializer(heap, schemas[F], value)) :
          io' = [op |-> "encode", F |-> F, mode |-> "", input |-> value,
                 origin |-> value, via |-> F, exc |-> r.exc, output |-> r.output]
    /\ UNCHANGED <<classes, heap, REGISTRY_STATE, budget, last, held, attrs, schemas,
                   conc>>

\* value is validated against the schema built for family root F; origin
\* is the instance it is the encoding of, when it is the last encoding, and
\* via the schema that encoded it.
Decode(F, mode, value) ==
    /\ F \in DOMAIN schemas
    /\ mode = "json" => value.kind = "map"
    /\ \E r \in {validate(schemas[F], mode, value)} :
          io' = [op |-> "decode", F |-> F, mode |-> mode, input |-> value,
                 origin |-> IF io.op = "encode" /\ io.exc = "" /\ io.output = value
                            THEN io.input ELSE NoValue,
                 via |-> IF io.op = "encode" /\ io.exc = "" /\ io.output = value
                         THEN io.F ELSE None,
                 exc |-> r.exc, output |-> r.output]
    /\ UNCHANGED <<classes, heap, REGISTRY_STATE, budget, last, held, attrs, schemas,
                   conc>>

\* The maps a program hands to validation: the fields, and no tag key or
\* the family's key with a tag.
Payloads ==
    {Map(v, tgs) : v \in FieldValues,
                   tgs \in {EmptyMap} \cup {(RegistryKwargs[1] :> t) : t \in Tags}}

InitSchema == InitFrom(Chain(2))

NextSchema ==
    \/ \E c \in ReachableClasses \ {2}, kwargs \in CopyKwargSets :
          DeclareClass(<<c>>, kwargs, FALSE)
    \/ \E F \in DOMAIN REGISTRY_STATE : BuildSchema(F)
    \/ \E F \in DOMAIN schemas \cup {None}, value \in Instances : Encode(F, value)
    \/ \E F \in DOMAIN schemas, mode \in {"json", "python"},
          value \in Payloads \cup Instances \cup {io.output} : Decode(F, mode, value)

SpecSchema == InitSchema /\ [][NextSchema]_vars

\* Family root F is the family of class c or a family that one is layered on.
InScope(F, c) ==
    /\ RootOf(c) # None
    /\ F \in Families
    /\ (F = RootOf(c) \/ DerivedFrom(RootOf(c), F))

\* The tags family F resolves, and the classes registered under them.
ScopeTags(F) ==
    {t \in NM_iter(heap, StateOf(F), "tag_to_class") :
        ~NM_getitem(heap, StateOf(F), "tag_to_class", t).raised}
ScopeClasses(F) ==
    {NM_getitem(heap, StateOf(F), "tag_to_class", t).value : t \in ScopeTags(F)}

\* C12: an instance of a registered variant V, encoded through V's own
\* schema or the schema of V's family or of an ancestor family, and decoded
\* against V's family or an ancestor family, comes back as an instance of
\* exactly V with the same field values.
C12_RoundTrip ==
    (/\ io.op = "decode"
     /\ io.origin.kind = "instance"
     /\ RegisteredTag(io.origin.cls) # ""
     /\ io.via # None => InScope(io.via, io.origin.cls)
     /\ InScope(io.F, io.origin.cls))
    => /\ io.exc = ""
       /\ io.output = io.origin

\* C13: encoding an instance of a registered variant V with tag t, through
\* V's own schema or the schema of its family root, gives the map of V's
\* fields plus the one key k, the tag keyword of V's family, with value t.
C13_EncodeAddsOwnTag ==
    (/\ io.op = "encode"
     /\ RegisteredTag(io.input.cls) # ""
     /\ io.F \in {None, RootOf(io.input.cls)})
    => /\ io.exc = ""
       /\ io.output = Map(io.input.x,
                          (get_tag_kwarg(io.input.cls) :> RegisteredTag(io.input.cls)))

\* C14: decoding a map with no tag key fails with the missing-tag error,
\* decoding a map whose tag the family does not resolve fails with the
\* unknown-tag error; neither gives an instance, and a decode changes no
\* store and registers nothing.
C14_DecodeFailures ==
    [][(io'.op = "decode" /\ io' # io /\ io'.input.kind = "map")
       => /\ get_tag_kwarg(io'.F) \notin DOMAIN io'.input.tags
                => io'.exc = "missing tag" /\ io'.output = NoValue
          /\ (/\ get_tag_kwarg(io'.F) \in DOMAIN io'.input.tags
              /\ io'.input.tags[get_tag_kwarg(io'.F)] \notin ScopeTags(io'.F))
                => io'.exc = "unknown tag" /\ io'.output = NoValue
          /\ heap' = heap
          /\ REGISTRY_STATE' = REGISTRY_STATE
          /\ classes' = classes]_vars

\* A map tagged "a" is decoded against a derived family that has a variant
\* of its own, while "a" is registered in the family it derives from only.
C14_Witness ==
    /\ io.op = "decode" /\ io.exc = "unknown tag"
    /\ heap[StateOf(io.F)].store # 0
    /\ schemas[io.F].choices # EmptyMap
    /\ io.input.tags = (RegistryKwargs[1] :> "a")
    /\ \E A \in Families : DerivedFrom(io.F, A) /\ "a" \in ScopeTags(A)

\* C15: JSON mode accepts only a map with a tag the family resolves; Python
\* mode also accepts an instance of any variant registered in the family's
\* scope and returns it as it is, and rejects an instance of no registered
\* variant and a map that is not validly tagged.
C15_AcceptanceModes ==
    io.op = "decode"
    => /\ (io.exc = "" /\ (io.mode = "json" \/ io.input.kind = "map"))
            => /\ io.input.kind = "map"
               /\ get_tag_kwarg(io.F) \in DOMAIN io.input.tags
               /\ io.input.tags[get_tag_kwarg(io.F)] \in ScopeTags(io.F)
       /\ (/\ io.mode = "python"
           /\ \E c \in ScopeClasses(io.F) : isinstance(io.input, c))
            => io.exc = "" /\ io.output = io.input
       /\ (/\ io.mode = "python"
           /\ io.input.kind = "instance"
           /\ ~\E c \in ScopeClasses(io.F) : isinstance(io.input, c))
            => io.exc # ""

\* The first class of the MRO that family F resolves a tag to: the most
\* specific registered type of an instance of a class with that MRO.
RECURSIVE MostSpecific(_, _)
MostSpecific(F, mro) ==
    IF mro = <<>> THEN None
    ELSE IF Head(mro) \in ScopeClasses(F) THEN Head(mro)
    ELSE MostSpecific(F, Tail(mro))

\* The tag family F resolves to class c.
ScopeTagOf(F, c) ==
    CHOOSE t \in ScopeTags(F) : NM_getitem(heap, StateOf(F), "tag_to_class", t).value = c

\* C21: encoding an instance through the schema of a family root adds the
\* tag of the most specific registered class of the instance: of its own
\* class when that is registered, else of the nearest registered base
\* class, also when several registered classes match the instance.
C21_MostSpecificTag ==
    (/\ io.op = "encode"
     /\ io.F # None
     /\ MostSpecific(io.F, classes[io.input.cls].mro) # None)
    => /\ io.exc = ""
       /\ io.output
            = Map(io.input.x,
                  (schemas[io.F].tag_kwarg
                     :> ScopeTagOf(io.F, MostSpecific(io.F, classes[io.input.cls].mro))))

\* C22: the schema built for a family follows the family's store: an
\* instance whose class the family resolves now is encoded with that tag,
\* and a map carrying a tag the family resolves now is decoded to the class
\* of that tag, also for variants declared after the schema was built.
C22_SchemaFollowsStore ==
    /\ (/\ io.op = "encode"
        /\ io.F # None
        /\ io.input.cls \in ScopeClasses(io.F)
        /\ Cardinality(SeqSet(classes[io.input.cls].mro) \cap ScopeClasses(io.F)) = 1)
       => /\ io.exc \in {"", "KeyError"}
          /\ io.exc = ""
               => io.output = Map(io.input.x,
                                  (schemas[io.F].tag_kwarg
                                     :> ScopeTagOf(io.F, io.input.cls)))
    /\ (/\ io.op = "decode"
        /\ io.input.kind = "map"
        /\ schemas[io.F].tag_kwarg \in DOMAIN io.input.tags
        /\ io.input.tags[schemas[io.F].tag_kwarg] \in ScopeTags(io.F))
       => /\ io.exc = ""
          /\ io.output
               = Instance(NM_getitem(heap, StateOf(io.F), "tag_to_class",
                                     io.input.tags[schemas[io.F].tag_kwarg]).value,
                          io.input.x)

\* C23: tagged_dataclass on a registered variant whose namespace already
\* has the field named by the tag keyword raises TypeError unless the
\* default of that field is the variant's tag, and succeeds if it is; a
\* second tagged_dataclass on a variant it has decorated succeeds.
C23_ExistingFieldChecked ==
    [][(/\ last'.op = "tagged_dataclass"
        /\ RegisteredTag(last'.cls) # ""
        /\ OwnField(attrs, last'.cls, get_tag_kwarg(last'.cls)) # NoField)
       => IF OwnField(attrs, last'.cls, get_tag_kwarg(last'.cls)).default
                = Str(RegisteredTag(last'.cls))
          THEN last'.exc = "" /\ attrs' = attrs
          ELSE last'.exc = "TypeError" /\ attrs' = attrs]_vars

\* The class statement about to run declares a family root and nothing
\* else: a Registry base is among its bases and it passes no keyword.
RootStatement(bases, kwargs) ==
    /\ StmtMro(bases).ok
    /\ kwargs = EmptyMap
    /\ Cardinality({r \in SeqSet(bases) : classes[r].registry}) = 1

\* C24: a completed class statement leaves a family root with the family
\* hook in its namespace, a tagged variant with the variant hook in its
\* namespace, and any other class with what its body defined and nothing
\* added; a root or a tagged variant whose body defines its own hook is
\* rejected with TypeError.
C24_HooksAttachedOnce ==
    [][last'.op = "declare"
       => /\ last'.exc = ""
               => classes'[last'.cls].hook
                    = (IF last'.cls \in DOMAIN REGISTRY_STATE' THEN "root"
                       ELSE IF last'.key.isstr THEN "variant"
                       ELSE IF last'.ownHook THEN "own" ELSE "none")
          /\ (/\ last'.ownHook
              /\ \/ RootStatement(last'.bases, last'.kwargs)
                 \/ /\ VariantStatement(last'.bases, last'.kwargs)
                    /\ UsedTags(last'.bases, last'.kwargs) = {})
               => /\ last'.exc = "TypeError"
                  /\ last'.msg \in {"root_hook", "variant_hook"}]_vars

\* A tagged variant whose body defines its own hook was declared under a
\* family derived from another one and was rejected.
C24_Witness ==
    /\ Declared /\ last.ownHook
    /\ last.exc = "TypeError" /\ last.msg = "variant_hook"
    /\ Len(last.bases) = 1
    /\ last.bases[1] \in DOMAIN REGISTRY_STATE
    /\ heap[StateOf(last.bases[1])].store # 0

\* The two views of family F are inverses of each other over the entries
\* they own.
MutualInverses(h, sid) ==
    /\ Cardinality(NM_iter(h, sid, "tag_to_class"))
          = Cardinality(NM_iter(h, sid, "class_to_tag"))
    /\ \A t \in NM_iter(h, sid, "tag_to_class") :
          /\ ~NM_getitem(h, sid, "tag_to_class", t).raised
          /\ NM_getitem(h, sid, "tag_to_class", t).value \in NM_iter(h, sid, "class_to_tag")
          /\ NM_getitem(h, sid, "class_to_tag",
                        NM_getitem(h, sid, "tag_to_class", t).value)
                = [raised |-> FALSE, value |-> t]
    /\ \A c \in NM_iter(h, sid, "class_to_tag") :
          /\ ~NM_getitem(h, sid, "class_to_tag", c).raised
          /\ NM_getitem(h, sid, "class_to_tag", c).value \in NM_iter(h, sid, "tag_to_class")
          /\ NM_getitem(h, sid, "tag_to_class",
                        NM_getitem(h, sid, "class_to_tag", c).value)
                = [raised |-> FALSE, value |-> c]

\* C25: in every reachable state the tag_to_class and class_to_tag views of
\* every family are mutual inverses over the entries the family owns, and
\* own the same number of entries.
C25_ViewsAreInverses ==
    \A F \in Families : MutualInverses(heap, StateOf(F))

\* The keys the two views of the family state sid own.
OwnedKeys(h, sid) == [tags |-> h[sid].tag_to_class.own, classes |-> h[sid].class_to_tag.own]

\* The last step declared a variant, registered under family B with tag t.
RegisteredStep(B, t) ==
    /\ last'.op = "declare" /\ last'.exc = "" /\ last'.key.isstr
    /\ last'.key.v = t
    /\ StmtFamily(last'.bases) = B

\* C26 as stated: a registration made at family B adds the entry to B's
\* owned keys only; the owned keys of every other family, B's ancestors
\* included, are as before.
C26_OnlyOwnSetWritten ==
    [][\A B \in DOMAIN REGISTRY_STATE, t \in Tags :
          RegisteredStep(B, t)
          => \A G \in DOMAIN REGISTRY_STATE :
                OwnedKeys(heap', StateOf(G))
                  = IF G = B
                    THEN [tags |-> OwnedKeys(heap, StateOf(G)).tags \cup {t},
                          classes |-> OwnedKeys(heap, StateOf(G)).classes \cup {last'.cls}]
                    ELSE OwnedKeys(heap, StateOf(G))]_vars

\* C26: a registration made at family B adds the entry to the owned keys of
\* B and of every family B is layered on, and leaves the owned keys of every
\* other family (derived from B, sibling, unrelated) as they were.
C26_OwnSetsOfLineageWritten ==
    [][\A B \in DOMAIN REGISTRY_STATE, t \in Tags :
          RegisteredStep(B, t)
          => \A G \in DOMAIN REGISTRY_STATE :
                OwnedKeys(heap', StateOf(G))
                  = IF G \in Lineage(heap, REGISTRY_STATE, B)
                    THEN [tags |-> OwnedKeys(heap, StateOf(G)).tags \cup {t},
                          classes |-> OwnedKeys(heap, StateOf(G)).classes \cup {last'.cls}]
                    ELSE OwnedKeys(heap, StateOf(G))]_vars

\* A variant was declared under a family that has a family above it, one
\* derived from it and a sibling.
C26_Witness ==
    /\ DeclaredVariant
    /\ \E A \in Families, D \in Families, S \in Families :
          /\ DerivedFrom(RootOf(last.cls), A)
          /\ DerivedFrom(D, RootOf(last.cls))
          /\ DerivedFrom(S, A) /\ S # RootOf(last.cls)
          /\ ~DerivedFrom(S, RootOf(last.cls)) /\ ~DerivedFrom(RootOf(last.cls), S)
          /\ last.key.v \in heap[StateOf(A)].tag_to_class.own
          /\ last.key.v \notin heap[StateOf(D)].tag_to_class.own
          /\ last.key.v \notin heap[StateOf(S)].tag_to_class.own

\* The first family root among the classes of a sequence, or None.
FirstRoot(seq) ==
    IF SelectSeq(seq, LAMBDA b : b \in DOMAIN REGISTRY_STATE) = <<>> THEN None
    ELSE Head(SelectSeq(seq, LAMBDA b : b \in DOMAIN REGISTRY_STATE))

\* C27: get_parent_registry_root of a class that is a family root is the
\* nearest family root among its proper ancestors (None when it has none),
\* never the class itself; of any other class it is the first family root
\* of its ancestor chain.
C27_ParentRootSkipsSelf ==
    \A c \in ReachableClasses :
        RootOf(c) = IF c \in DOMAIN REGISTRY_STATE
                    THEN FirstRoot(Tail(classes[c].mro))
                    ELSE FirstRoot(classes[c].mro)

\* C28: a variant declaration that fails with a tag conflict leaves every
\* store as it was: for every family, get_tag_to_class_mapping (and so
\* tags) succeeds after it and returns what it returned before, at any
\* depth of the family chain.
C28_FailedDeclarationChangesNothing ==
    [][(/\ last'.op = "declare"
        /\ VariantStatement(last'.bases, last'.kwargs)
        /\ last'.exc = "KeyError" /\ last'.msg = "conflict"
        /\ last.clean)
       => /\ heap' = heap
          /\ REGISTRY_STATE' = REGISTRY_STATE
          /\ \A F \in Families :
                /\ MappingIn(heap', REGISTRY_STATE', classes', F).exc = ""
                /\ MappingIn(heap', REGISTRY_STATE', classes', F)
                      = MappingIn(heap, REGISTRY_STATE, classes, F)]_vars

\* C29: a class statement rejected for misuse (a root given a tag, a root
\* or a tagged variant whose body defines its own schema hook) leaves the
\* registry state as it was: no family state is created for the rejected
\* root, the rejected variant is not registered, and every family's mapping
\* is what it was before.
C29_RejectedDeclarationChangesNothing ==
    [][(/\ last'.op = "declare"
        /\ last'.exc = "TypeError"
        /\ last'.msg \in {"root_tag", "root_hook", "variant_hook"}
        /\ last.clean)
       => /\ heap' = heap
          /\ REGISTRY_STATE' = REGISTRY_STATE
          /\ ~RegisteredAnywhere(heap', last'.cls)
          /\ \A F \in Families :
                MappingIn(heap', REGISTRY_STATE', classes', F)
                    = MappingIn(heap, REGISTRY_STATE, classes, F)]_vars

\* ------------------------------------------------ concurrent declarations
\* Two threads run `class X(F, _type_tag=tag): pass` each.  The interpreter
\* can switch threads between any two statements of
\* NarrowingMapping.__setitem__, so every statement is a step of its own:
\*   check   if key in self._store: raise KeyError      (utils.py 131-132)
\*   add     self._own.add(key)                         (utils.py 134)
\*   store   self._store[key] = value                   (utils.py 135)
\* where store enters the parent's __setitem__ when _store is another
\* NarrowingMapping and writes the plain dict otherwise.
ThreadKey(th) == IF th.m = "tag_to_class" THEN th.tag ELSE th.cls
ThreadValue(th) == IF th.m = "tag_to_class" THEN th.cls ELSE th.tag

Running(t) == threads[t].pc \notin {"idle", "done"}

\* A step of thread t happens while another thread is inside its statement.
Step(t) == overlapped' = (overlapped \/ \E u \in Threads \ {t} : Running(u))

\* Mutant of SetitemCheck: the conflict check never finds the key.
SetitemCheck_absent(h, th) == FALSE

\* The condition of utils.py 131 for the __setitem__ thread th is in.
SetitemCheck(h, th) == StoreContains(h, th.at, th.m, ThreadKey(th))

\* type.__new__ builds the class and Registry.__init_subclass__ runs up to
\* the registration (registry.py 124-181): the tag is a non-empty string and
\* the parent registry is the first family root of the MRO.
Begin(t, F, tag) ==
    /\ threads[t].pc = "idle"
    /\ \E lin \in {Linearize(classes, Len(classes) + 1, <<F>>)} :
          /\ lin.ok
          /\ classes' = Append(classes,
                               [bases |-> <<F>>, mro |-> lin.value, registry |-> FALSE,
                                tag_kwarg |-> "", hook |-> "none", hook_kwarg |-> "",
                                defined |-> FALSE])
          /\ \E root \in {get_parent_registry_root(REGISTRY_STATE, Len(classes) + 1,
                                                   lin.value)} :
                threads' = [threads EXCEPT ![t] =
                              [pc |-> "check", cls |-> Len(classes) + 1, F |-> root,
                               tag |-> tag, m |-> "tag_to_class",
                               at |-> REGISTRY_STATE[root].state, exc |-> ""]]
    /\ Step(t)
    /\ UNCHANGED <<heap, REGISTRY_STATE, budget, last, client>>

Check(t) ==
    /\ threads[t].pc = "check"
    /\ threads' = [threads EXCEPT ![t] =
                     IF SetitemCheck(heap, threads[t])
                     THEN [@ EXCEPT !.pc = "done", !.exc = "KeyError"]
                     ELSE [@ EXCEPT !.pc = "add"]]
    /\ Step(t)
    /\ UNCHANGED <<classes, heap, REGISTRY_STATE, budget, last, client>>

Add(t) ==
    /\ threads[t].pc = "add"
    /\ heap' = [heap EXCEPT ![threads[t].at][threads[t].m].own =
                                @ \cup {ThreadKey(threads[t])}]
    /\ threads' = [threads EXCEPT ![t].pc = "store"]
    /\ Step(t)
    /\ UNCHANGED <<classes, REGISTRY_STATE, budget, last, client>>

\* self._store[key] = value: the call of the parent's __setitem__, or the
\* assignment to the plain dict, which replaces the value of a key that is
\* there; after it tag_to_class[tag] = cls has returned and
\* class_to_tag[cls] = tag begins (registry.py 184-185), or both have and
\* the hook is attached.
Store(t) ==
    /\ threads[t].pc = "store"
    /\ \E th \in {threads[t]} :
          IF heap[th.at].store # 0
          THEN /\ threads' = [threads EXCEPT ![t].pc = "check",
                                             ![t].at = heap[th.at].store]
               /\ UNCHANGED heap
          ELSE /\ heap' = [heap EXCEPT ![th.at][th.m].base =
                             [k \in DOMAIN @ \cup {ThreadKey(th)} |->
                                IF k = ThreadKey(th) THEN ThreadValue(th) ELSE @[k]]]
               /\ threads' = [threads EXCEPT ![t] =
                                IF th.m = "tag_to_class"
                                THEN [@ EXCEPT !.pc = "check", !.m = "class_to_tag",
                                               !.at = REGISTRY_STATE[th.F].state]
                                ELSE [@ EXCEPT !.pc = "hook"]]
    /\ Step(t)
    /\ UNCHANGED <<classes, REGISTRY_STATE, budget, last, client>>

\* registry.py 187-192: the class body defines no hook, the variant hook is
\* attached and the class statement completes.
Hook(t) ==
    /\ threads[t].pc = "hook"
    /\ classes' = [classes EXCEPT ![threads[t].cls].hook = "variant",
                                  ![threads[t].cls].hook_kwarg = RegistryKwargs[1],
                                  ![threads[t].cls].defined = TRUE]
    /\ threads' = [threads EXCEPT ![t].pc = "done"]
    /\ Step(t)
    /\ UNCHANGED <<heap, REGISTRY_STATE, budget, last, client>>

InitConcurrent ==
    \/ \E d \in 1..3 : InitFrom(Chain(d))
    \/ InitFrom(Siblings)

NextConcurrent ==
    \E t \in Threads :
        \/ \E F \in Families, tag \in Tags : Begin(t, F, tag)
        \/ Check(t)
        \/ Add(t)
        \/ Store(t)
        \/ Hook(t)

SpecConcurrent == InitConcurrent /\ [][NextConcurrent]_vars

\* Both class statements completed, for variants with the same tag in
\* families of one lineage.
BothSucceeded ==
    /\ \A t \in Threads : threads[t].pc = "done" /\ threads[t].exc = ""
    /\ threads[1].tag = threads[2].tag
    /\ LineageTop(heap, StateOf(threads[1].F)) = LineageTop(heap, StateOf(threads[2].F))

\* C30: two class statements for different variants with the same tag in
\* one lineage both complete only when the threads running them interleaved
\* inside the registration, and then some family of the lineage is left with
\* tag_to_class and class_to_tag that are not inverses of each other; with
\* the statements run one after the other at most one of them completes.
C30_RaceNeedsInterleaving ==
    BothSucceeded =>
        /\ overlapped
        /\ \E F \in Families : ~MutualInverses(heap, StateOf(F))

\* Both statements completed and the tag maps to one class while both
\* classes map to the tag.
C30_Witness ==
    /\ BothSucceeded
    /\ overlapped
    /\ threads[1].cls # threads[2].cls
    /\ \E F \in Families : ~MutualInverses(heap, StateOf(F))
    /\ \A t \in Threads :
          NM_getitem(heap, StateOf(threads[t].F), "class_to_tag", threads[t].cls)
              = [raised |-> FALSE, value |-> threads[t].tag]

====
